---------------------------- MODULE Spec2Model ----------------------------
(***************************************************************************)
(* examples/save-load-state/save-load-state.cpp                            *)
(*                                                                         *)
(* main() evaluates a prompt on a first context (ctx), captures the        *)
(* context state into state_mem and dump_state.bin, runs n_predict         *)
(* sample/eval steps, frees ctx, creates a second context (ctx2), loads    *)
(* the state back and runs the same n_predict steps again.                 *)
(*                                                                         *)
(* The program is sequential: pc is the position in main().  The llama_*   *)
(* library and the C file functions are not part of the source file; they  *)
(* are modelled from the engine contract (operators prefixed llama_) and   *)
(* from the C library's documented behaviour.                              *)
(***************************************************************************)
EXTENDS Integers, Sequences, FiniteSets, TLC

(***************************************************************************)
(* Bounds of the model.                                                    *)
(***************************************************************************)
MaxCtx      == 3   \* params.n_ctx ranges over 1..MaxCtx and BigCtx
BigCtx      == 18  \* a context that holds a prompt and DefaultNPredict tokens
MaxPrompt   == 2   \* the prompt tokenizes to 0..MaxPrompt tokens
MaxPredict  == 2   \* params.n_predict ranges over -1..MaxPredict
MaxRepeat   == 1   \* params.repeat_last_n ranges over 0..MaxRepeat
NVocab      == 2   \* vocabulary size of the model file
MaxExtra    == 1   \* model-file dependent part of the state size, 0..MaxExtra

(***************************************************************************)
(* Program constants.                                                      *)
(***************************************************************************)
DefaultNPredict == 16   \* params.n_predict = 16 when given negative
DefaultSeed     == 42   \* params.seed = 42

LogitMod == 3           \* logits are values 0..LogitMod-1
RngMod   == 2           \* generator states 0..RngMod-1

Tokens == 0 .. (NVocab - 1)

Min(a, b) == IF a < b THEN a ELSE b

Zeros(n) == [k \in 1..n |-> 0]

\* All token sequences of length 0..n
RECURSIVE SeqsUpTo(_)
SeqsUpTo(n) ==
    IF n = 0 THEN {<< >>}
    ELSE LET S == SeqsUpTo(n - 1)
         IN  S \cup {Append(s, t) : s \in {x \in S : Len(x) = n - 1}, t \in Tokens}

(***************************************************************************)
(* The engine handle (llama_context).                                      *)
(*   status  "null" (creation failed), "live", "freed"                     *)
(*   n_ctx   number of cache cells                                         *)
(*   extra   model-file dependent bytes of working state                   *)
(*   rng     generator state used by the sampler                           *)
(*   n_cells number of cache cells logically filled                        *)
(*   cache   the n_ctx cache cells                                         *)
(*   logits  the logits of the last evaluation, one per vocabulary entry   *)
(***************************************************************************)
NullHandle ==
    [status |-> "null", n_ctx |-> 0, extra |-> 0, rng |-> 0, n_cells |-> 0,
     cache |-> << >>, logits |-> << >>]

\* llama_init_from_file on success: a fresh handle
llama_init_from_file(n_ctx_, seed_, extra_) ==
    [status |-> "live", n_ctx |-> n_ctx_, extra |-> extra_,
     rng |-> seed_ % RngMod, n_cells |-> 0,
     cache |-> Zeros(n_ctx_), logits |-> Zeros(NVocab)]

\* llama_tokenize: the number of tokens, negated when they do not fit n_max
llama_tokenize(prompt, n_max) ==
    IF Len(prompt) <= n_max THEN Len(prompt) ELSE -Len(prompt)

\* position-weighted digest of the first n cache cells
RECURSIVE CacheDigest(_, _)
CacheDigest(cache, n) ==
    IF n = 0 THEN 0 ELSE CacheDigest(cache, n - 1) + (cache[n] + 1) * n

\* the logits the engine computes over the filled cache
ComputeLogits(cache, n) ==
    [v \in 1..NVocab |-> (CacheDigest(cache, n) * v + n) % LogitMod]

\* llama_eval succeeds only when the tokens fit the cache
EvalFits(h, n, pos) == pos >= 0 /\ pos + n <= h.n_ctx

\* llama_eval on success: writes toks into the cells pos+1 .. pos+Len(toks)
llama_eval(h, toks, pos) ==
    LET n  == Len(toks)
        c2 == [k \in 1..h.n_ctx |->
                 IF k > pos /\ k <= pos + n THEN toks[k - pos] ELSE h.cache[k]]
    IN  [h EXCEPT !.cache = c2, !.n_cells = pos + n,
                  !.logits = ComputeLogits(c2, pos + n)]

\* llama_get_state_size: a function of the configuration only
llama_get_state_size(h) == 2 + NVocab + h.n_ctx + h.extra

\* llama_copy_state_data: the bytes of the working state
llama_copy_state_data(h) ==
    << h.rng, h.n_cells >> \o h.logits \o h.cache \o Zeros(h.extra)

\* llama_set_state_data: reads llama_get_state_size(h) bytes from buf
llama_set_state_data(h, buf) ==
    [h EXCEPT !.rng     = buf[1],
              !.n_cells = buf[2],
              !.logits  = SubSeq(buf, 3, 2 + NVocab),
              !.cache   = SubSeq(buf, 3 + NVocab, 2 + NVocab + h.n_ctx)]

\* index (1-based) of the first maximal score of the candidates
RECURSIVE ArgMax(_, _)
ArgMax(cands, n) ==
    IF n = 1 THEN 1
    ELSE LET b == ArgMax(cands, n - 1)
         IN  IF cands[n].logit > cands[b].logit THEN n ELSE b

\* llama_sample_token: one token id, chosen from the scores and the generator
llama_sample_token(h, cands) ==
    cands[((ArgMax(cands, Len(cands)) - 1 + h.rng) % Len(cands)) + 1].id

\* the generator state after one draw
llama_sample_advance(h) == [h EXCEPT !.rng = (h.rng + 1) % RngMod]


(***************************************************************************)
(* State of main().                                                        *)
(***************************************************************************)
VARIABLES
    pc,                        \* position in main()
    params,                    \* gpt_params: n_predict, n_ctx, repeat_last_n, seed, prompt
    n_past,                    \* line 41
    last_n_tokens_data,        \* line 42
    ctx,                       \* line 45
    tokens,                    \* line 48
    n_prompt_tokens,           \* line 49
    state_size,                \* line 65
    state_mem,                 \* line 66
    fp_write,                  \* line 70
    last_n_tokens_data_saved,  \* line 77
    n_past_saved,              \* line 78
    i,                         \* loop counter, lines 82 and 140
    logits,                    \* lines 84 and 142
    candidates,                \* lines 86 and 144
    next_token,                \* lines 96 and 150
    ctx2,                      \* line 115
    fp_read,                   \* line 119
    ret,                       \* line 124
    dump_state,                \* contents of the file dump_state.bin
    out1,                      \* tokens printed by the first run
    out2,                      \* tokens printed by the second run
    err,                       \* diagnostic printed on stderr before return 1
    ckpt_ctx,                  \* history: ctx as it was when line 71 captured it
    calls                      \* history: the library calls issued so far

vars == << pc, params, n_past, last_n_tokens_data, ctx, tokens, n_prompt_tokens,
           state_size, state_mem, fp_write, last_n_tokens_data_saved,
           n_past_saved, i, logits, candidates, next_token, ctx2, fp_read, ret,
           dump_state, out1, out2, err, ckpt_ctx, calls >>

\* one entry of the call history: operation, source line of the call,
\* handle (1 = ctx, 2 = ctx2, 0 = none), position and count arguments, cells
\* the handle has filled before the call, the value returned, and whether
\* the call faulted (null handle or null stream)
Call(op_, line_, h_, pos_, n_, cells_, ret_) ==
    [op |-> op_, line |-> line_, h |-> h_, pos |-> pos_, n |-> n_,
     cells |-> cells_, ret |-> ret_, fault |-> FALSE]

Fault(op_, line_, h_) ==
    [op |-> op_, line |-> line_, h |-> h_, pos |-> 0, n |-> 0,
     cells |-> 0, ret |-> 0, fault |-> TRUE]

Log(c) == calls' = Append(calls, c)

\* the seed: params.seed = 42 unless the command line gives another
Seeds == {DefaultSeed}

\* the context lengths the command line may give
CtxSizes == (1 .. MaxCtx) \cup {BigCtx}

\* the byte counts fwrite and fread may transfer of n requested bytes
Transfers(n) == {k \in {0, n - 1, n} : k >= 0}

Init ==
    /\ pc = "start"
    /\ params \in [n_predict : -1 .. MaxPredict,
                   n_ctx : CtxSizes,
                   repeat_last_n : {0, MaxRepeat},
                   seed : Seeds,
                   prompt : SeqsUpTo(MaxPrompt)]
    /\ n_past = 0
    /\ last_n_tokens_data = << >>
    /\ ctx = NullHandle
    /\ tokens = << >>
    /\ n_prompt_tokens = 0
    /\ state_size = 0
    /\ state_mem = << >>
    /\ fp_write = "none"
    /\ last_n_tokens_data_saved = << >>
    /\ n_past_saved = 0
    /\ i = 0
    /\ logits = << >>
    /\ candidates = << >>
    /\ next_token = 0
    /\ ctx2 = NullHandle
    /\ fp_read = "none"
    /\ ret = 0
    /\ dump_state = << >>
    /\ out1 = << >>
    /\ out2 = << >>
    /\ err = "none"
    /\ ckpt_ctx = NullHandle
    /\ calls = << >>

(***************************************************************************)
(* Program positions.  The two prediction runs (lines 82-107 on ctx and    *)
(* lines 140-160 on ctx2) have the same steps; r = 1, 2 names the run.     *)
(***************************************************************************)
AtLoop   == << "loop1", "loop2" >>              \* i < params.n_predict
AtLogits == << "logits1", "logits2" >>          \* llama_get_logits
AtCands  == << "candidates1", "candidates2" >>  \* candidates.emplace_back
AtSample == << "sample1", "sample2" >>          \* llama_sample_token
AtPush   == << "push1", "push2" >>              \* last_n_tokens_data.push_back
AtEval   == << "eval1", "eval2" >>              \* llama_eval
AfterRun == << "free_ctx", "exit0" >>           \* lines 109-112, lines 162-165

\* source lines of the library calls of the two runs
LineLogits == << 84, 142 >>
LineSample == << 96, 150 >>
LineEval   == << 102, 155 >>

Halted == pc \in {"exit0", "exit1", "crashed"}

\* the handle the calls of run r are given: ctx in the first run (lines
\* 84-102), ctx2 in the second (lines 142-155)
\* variant: the second run was copied from the first and still names ctx
HandleId_AlwaysCtx(r) == 1

HandleId(r) == r

Handle(r) == IF HandleId(r) = 1 THEN ctx ELSE ctx2

(***************************************************************************)
(* Lines 28-42: default n_predict, n_past and the zero window.             *)
(***************************************************************************)
\* variant: a negative n_predict is kept
NPredictDefault_Kept(n) == n

NPredictDefault(n) == IF n < 0 THEN DefaultNPredict ELSE n

Setup ==
    /\ pc = "start"
    /\ params' = [params EXCEPT !.n_predict = NPredictDefault(params.n_predict)]
    /\ n_past' = 0
    /\ last_n_tokens_data' = Zeros(params.repeat_last_n)
    /\ pc' = "init_ctx"
    /\ UNCHANGED << ctx, tokens, n_prompt_tokens, state_size, state_mem, fp_write,
                    last_n_tokens_data_saved, n_past_saved, i, logits, candidates,
                    next_token, ctx2, fp_read, ret, dump_state, out1, out2, err,
                    ckpt_ctx, calls >>

(***************************************************************************)
(* Line 45: ctx = llama_init_from_file(...); the result is not checked.    *)
(* The model file decides the geometry (extra) of the handle.              *)
(***************************************************************************)
CreateCtx ==
    /\ pc = "init_ctx"
    /\ \E ok \in BOOLEAN, extra \in {0, MaxExtra} :
          /\ ctx' = IF ok THEN llama_init_from_file(params.n_ctx, params.seed, extra)
                          ELSE NullHandle
          /\ Log(Call("init", 45, 1, 0, 0, 0, IF ok THEN 0 ELSE 1))
    /\ pc' = "tokenize"
    /\ UNCHANGED << params, n_past, last_n_tokens_data, tokens, n_prompt_tokens,
                    state_size, state_mem, fp_write, last_n_tokens_data_saved,
                    n_past_saved, i, logits, candidates, next_token, ctx2, fp_read,
                    ret, dump_state, out1, out2, err, ckpt_ctx >>

(***************************************************************************)
(* Lines 48-55: tokenize the prompt into a buffer of n_ctx tokens; return  *)
(* 1 when fewer than one token results.  llama_tokenize dereferences ctx:  *)
(* on a null ctx the process is terminated by the fault.                   *)
(***************************************************************************)
\* variant: only a negative count is taken as a failure
TokenizeFailed_OnlyNegative(n) == n < 0

TokenizeFailed(n) == n < 1

Tokenize ==
    /\ pc = "tokenize"
    /\ IF ctx.status # "live"
       THEN /\ Log(Fault("tokenize", 49, 1))
            /\ pc' = "crashed"
            /\ UNCHANGED << tokens, n_prompt_tokens, err >>
       ELSE LET n == llama_tokenize(params.prompt, params.n_ctx)
            IN  /\ Log(Call("tokenize", 49, 1, 0, 0, ctx.n_cells, n))
                /\ n_prompt_tokens' = n
                /\ tokens' = IF n >= 0
                             THEN params.prompt \o Zeros(params.n_ctx - n)
                             ELSE Zeros(params.n_ctx)
                /\ IF TokenizeFailed(n)
                   THEN pc' = "exit1" /\ err' = "tokenize"
                   ELSE pc' = "eval_prompt" /\ err' = err
    /\ UNCHANGED << params, n_past, last_n_tokens_data, ctx, state_size, state_mem,
                    fp_write, last_n_tokens_data_saved, n_past_saved, i, logits,
                    candidates, next_token, ctx2, fp_read, ret, dump_state, out1,
                    out2, ckpt_ctx >>

(***************************************************************************)
(* Lines 58-62: evaluate the prompt at n_past; the value llama_eval        *)
(* returns is discarded; insert the prompt tokens; n_past += n.            *)
(***************************************************************************)
EvalPrompt ==
    /\ pc = "eval_prompt"
    /\ \E ok \in BOOLEAN :
          /\ ok => EvalFits(ctx, n_prompt_tokens, n_past)
          /\ ctx' = IF ok
                    THEN llama_eval(ctx, SubSeq(tokens, 1, n_prompt_tokens), n_past)
                    ELSE ctx
          /\ Log(Call("eval", 58, 1, n_past, n_prompt_tokens, ctx.n_cells,
                      IF ok THEN 0 ELSE 1))
    /\ last_n_tokens_data' =
          last_n_tokens_data \o SubSeq(tokens, 1, n_prompt_tokens)
    /\ n_past' = n_past + n_prompt_tokens
    /\ pc' = "state_size"
    /\ UNCHANGED << params, tokens, n_prompt_tokens, state_size, state_mem, fp_write,
                    last_n_tokens_data_saved, n_past_saved, i, logits, candidates,
                    next_token, ctx2, fp_read, ret, dump_state, out1, out2, err,
                    ckpt_ctx >>

(***************************************************************************)
(* Lines 65-66: state_size and the buffer of state_size bytes.  The        *)
(* buffer's bytes are written (line 71) before they are ever read.         *)
(***************************************************************************)
GetStateSize ==
    /\ pc = "state_size"
    /\ state_size' = llama_get_state_size(ctx)
    /\ state_mem' = Zeros(llama_get_state_size(ctx))
    /\ Log(Call("get_state_size", 65, 1, 0, 0, ctx.n_cells, llama_get_state_size(ctx)))
    /\ pc' = "fopen_write"
    /\ UNCHANGED << params, n_past, last_n_tokens_data, ctx, tokens, n_prompt_tokens,
                    fp_write, last_n_tokens_data_saved, n_past_saved, i, logits,
                    candidates, next_token, ctx2, fp_read, ret, dump_state, out1,
                    out2, err, ckpt_ctx >>

(***************************************************************************)
(* Line 70: fopen("dump_state.bin", "wb"); the result is not checked.      *)
(* A successful open truncates the file.                                   *)
(***************************************************************************)
FopenWrite ==
    /\ pc = "fopen_write"
    /\ \E ok \in BOOLEAN :
          /\ fp_write' = IF ok THEN "open" ELSE "null"
          /\ dump_state' = IF ok THEN << >> ELSE dump_state
          /\ Log(Call("fopen_wb", 70, 0, 0, 0, 0, IF ok THEN 0 ELSE 1))
    /\ pc' = "copy_state"
    /\ UNCHANGED << params, n_past, last_n_tokens_data, ctx, tokens, n_prompt_tokens,
                    state_size, state_mem, last_n_tokens_data_saved, n_past_saved, i,
                    logits, candidates, next_token, ctx2, fp_read, ret, out1, out2,
                    err, ckpt_ctx >>

(***************************************************************************)
(* Line 71: llama_copy_state_data(ctx, state_mem).                         *)
(***************************************************************************)
CopyStateData ==
    /\ pc = "copy_state"
    /\ state_mem' = llama_copy_state_data(ctx)
    /\ ckpt_ctx' = ctx
    /\ Log(Call("copy_state_data", 71, 1, 0, 0, ctx.n_cells, state_size))
    /\ pc' = "fwrite"
    /\ UNCHANGED << params, n_past, last_n_tokens_data, ctx, tokens, n_prompt_tokens,
                    state_size, fp_write, last_n_tokens_data_saved, n_past_saved, i,
                    logits, candidates, next_token, ctx2, fp_read, ret, dump_state,
                    out1, out2, err >>

(***************************************************************************)
(* Lines 72-73: fwrite(state_mem, 1, state_size, fp_write); fclose.  The   *)
(* count fwrite returns is discarded.  fwrite on a null stream terminates  *)
(* the process.                                                            *)
(***************************************************************************)
Fwrite ==
    /\ pc = "fwrite"
    /\ IF fp_write = "null"
       THEN /\ Log(Fault("fwrite", 72, 0))
            /\ pc' = "crashed"
            /\ UNCHANGED << dump_state, fp_write >>
       ELSE \E k \in Transfers(state_size) :
               /\ dump_state' = SubSeq(state_mem, 1, k)
               /\ fp_write' = "closed"
               /\ Log(Call("fwrite", 72, 0, 0, state_size, 0, k))
               /\ pc' = "save_tokens"
    /\ UNCHANGED << params, n_past, last_n_tokens_data, ctx, tokens, n_prompt_tokens,
                    state_size, state_mem, last_n_tokens_data_saved, n_past_saved, i,
                    logits, candidates, next_token, ctx2, fp_read, ret, out1, out2,
                    err, ckpt_ctx >>

(***************************************************************************)
(* Lines 77-82: the saved copies of last_n_tokens_data and n_past; the     *)
(* first run starts with i = 0.                                            *)
(***************************************************************************)
SaveTokens ==
    /\ pc = "save_tokens"
    /\ last_n_tokens_data_saved' = last_n_tokens_data
    /\ n_past_saved' = n_past
    /\ i' = 0
    /\ pc' = AtLoop[1]
    /\ UNCHANGED << params, n_past, last_n_tokens_data, ctx, tokens, n_prompt_tokens,
                    state_size, state_mem, fp_write, logits, candidates, next_token,
                    ctx2, fp_read, ret, dump_state, out1, out2, err, ckpt_ctx, calls >>

(***************************************************************************)
(* Lines 82 and 140: the loop condition i < params.n_predict.              *)
(***************************************************************************)
\* variant: the loop condition is i <= params.n_predict
LoopCond_OffByOne(r) ==
    /\ pc = AtLoop[r]
    /\ pc' = IF i <= params.n_predict THEN AtLogits[r] ELSE AfterRun[r]
    /\ UNCHANGED << params, n_past, last_n_tokens_data, ctx, tokens, n_prompt_tokens,
                    state_size, state_mem, fp_write, last_n_tokens_data_saved,
                    n_past_saved, i, logits, candidates, next_token, ctx2, fp_read,
                    ret, dump_state, out1, out2, err, ckpt_ctx, calls >>

LoopCond(r) ==
    /\ pc = AtLoop[r]
    /\ pc' = IF i < params.n_predict THEN AtLogits[r] ELSE AfterRun[r]
    /\ UNCHANGED << params, n_past, last_n_tokens_data, ctx, tokens, n_prompt_tokens,
                    state_size, state_mem, fp_write, last_n_tokens_data_saved,
                    n_past_saved, i, logits, candidates, next_token, ctx2, fp_read,
                    ret, dump_state, out1, out2, err, ckpt_ctx, calls >>

(***************************************************************************)
(* Lines 84-85 and 142-143: llama_get_logits, llama_n_vocab.               *)
(***************************************************************************)
GetLogits(r) ==
    /\ pc = AtLogits[r]
    /\ logits' = Handle(r).logits
    /\ Log(Call("get_logits", LineLogits[r], HandleId(r), 0, 0, Handle(r).n_cells, 0))
    /\ pc' = AtCands[r]
    /\ UNCHANGED << params, n_past, last_n_tokens_data, ctx, tokens, n_prompt_tokens,
                    state_size, state_mem, fp_write, last_n_tokens_data_saved,
                    n_past_saved, i, candidates, next_token, ctx2, fp_read, ret,
                    dump_state, out1, out2, err, ckpt_ctx >>

(***************************************************************************)
(* Lines 86-93 and 144-149: one candidate {token_id, logits[token_id],     *)
(* 0.0f} per vocabulary entry, token_id = 0 .. n_vocab-1.                  *)
(***************************************************************************)
\* variant: token ids counted from 1
Candidates_OneBased(lg, n_vocab) ==
    [k \in 1..n_vocab |-> [id |-> k, logit |-> lg[k], p |-> 0]]

Candidates(lg, n_vocab) ==
    [k \in 1..n_vocab |-> [id |-> k - 1, logit |-> lg[k], p |-> 0]]

BuildCandidates(r) ==
    /\ pc = AtCands[r]
    /\ candidates' = Candidates(logits, NVocab)
    /\ pc' = AtSample[r]
    /\ UNCHANGED << params, n_past, last_n_tokens_data, ctx, tokens, n_prompt_tokens,
                    state_size, state_mem, fp_write, last_n_tokens_data_saved,
                    n_past_saved, i, logits, next_token, ctx2, fp_read, ret,
                    dump_state, out1, out2, err, ckpt_ctx, calls >>

(***************************************************************************)
(* Lines 96-97 and 150-151: next_token = llama_sample_token(...).          *)
(***************************************************************************)
SampleToken(r) ==
    /\ pc = AtSample[r]
    /\ next_token' = llama_sample_token(Handle(r), candidates)
    /\ IF HandleId(r) = 1
       THEN ctx' = llama_sample_advance(ctx) /\ ctx2' = ctx2
       ELSE ctx2' = llama_sample_advance(ctx2) /\ ctx' = ctx
    /\ Log(Call("sample_token", LineSample[r], HandleId(r), 0, 0, Handle(r).n_cells,
                llama_sample_token(Handle(r), candidates)))
    /\ pc' = AtPush[r]
    /\ UNCHANGED << params, n_past, last_n_tokens_data, tokens, n_prompt_tokens,
                    state_size, state_mem, fp_write, last_n_tokens_data_saved,
                    n_past_saved, i, logits, candidates, fp_read, ret, dump_state,
                    out1, out2, err, ckpt_ctx >>

(***************************************************************************)
(* Lines 98 and 152: last_n_tokens_data.push_back(next_token).             *)
(***************************************************************************)
\* variant: the oldest entry is evicted on every push_back
PushBack_Evicting(r) ==
    /\ pc = AtPush[r]
    /\ last_n_tokens_data' =
          IF last_n_tokens_data = << >> THEN << >>
          ELSE Append(Tail(last_n_tokens_data), next_token)
    /\ pc' = AtEval[r]
    /\ UNCHANGED << params, n_past, ctx, tokens, n_prompt_tokens, state_size,
                    state_mem, fp_write, last_n_tokens_data_saved, n_past_saved, i,
                    logits, candidates, next_token, ctx2, fp_read, ret, dump_state,
                    out1, out2, err, ckpt_ctx, calls >>

\* variant: last_n_tokens_data_saved is a reference to last_n_tokens_data
PushBack_Aliased(r) ==
    /\ pc = AtPush[r]
    /\ last_n_tokens_data' = Append(last_n_tokens_data, next_token)
    /\ last_n_tokens_data_saved' = Append(last_n_tokens_data, next_token)
    /\ pc' = AtEval[r]
    /\ UNCHANGED << params, n_past, ctx, tokens, n_prompt_tokens, state_size,
                    state_mem, fp_write, n_past_saved, i, logits, candidates,
                    next_token, ctx2, fp_read, ret, dump_state, out1, out2, err,
                    ckpt_ctx, calls >>

PushBack(r) ==
    /\ pc = AtPush[r]
    /\ last_n_tokens_data' = Append(last_n_tokens_data, next_token)
    /\ pc' = AtEval[r]
    /\ UNCHANGED << params, n_past, ctx, tokens, n_prompt_tokens, state_size,
                    state_mem, fp_write, last_n_tokens_data_saved, n_past_saved, i,
                    logits, candidates, next_token, ctx2, fp_read, ret, dump_state,
                    out1, out2, err, ckpt_ctx, calls >>

(***************************************************************************)
(* Lines 101-106 and 154-159: print the token; evaluate it at n_past;      *)
(* return 1 when llama_eval returns non-zero, else n_past += 1 and i++.    *)
(***************************************************************************)
\* variant: the value llama_eval returns is discarded, as at line 58
EvalFailed_Ignored(rc) == FALSE

EvalFailed(rc) == rc # 0

EvalToken(r) ==
    /\ pc = AtEval[r]
    /\ IF r = 1
       THEN out1' = Append(out1, next_token) /\ out2' = out2
       ELSE out2' = Append(out2, next_token) /\ out1' = out1
    /\ \E ok \in BOOLEAN :
          /\ ok => EvalFits(Handle(r), 1, n_past)
          /\ LET rc == IF ok THEN 0 ELSE 1
                 h2 == IF ok THEN llama_eval(Handle(r), << next_token >>, n_past)
                             ELSE Handle(r)
             IN  /\ IF HandleId(r) = 1 THEN ctx' = h2 /\ ctx2' = ctx2
                             ELSE ctx2' = h2 /\ ctx' = ctx
                 /\ Log(Call("eval", LineEval[r], HandleId(r), n_past, 1, Handle(r).n_cells, rc))
                 /\ IF EvalFailed(rc)
                    THEN /\ err' = "evaluate"
                         /\ pc' = "exit1"
                         /\ UNCHANGED << n_past, i >>
                    ELSE /\ n_past' = n_past + 1
                         /\ i' = i + 1
                         /\ pc' = AtLoop[r]
                         /\ err' = err
    /\ UNCHANGED << params, last_n_tokens_data, tokens, n_prompt_tokens, state_size,
                    state_mem, fp_write, last_n_tokens_data_saved, n_past_saved,
                    logits, candidates, next_token, fp_read, ret, dump_state, ckpt_ctx >>

(***************************************************************************)
(* Line 112: llama_free(ctx).                                              *)
(***************************************************************************)
\* variant: llama_free(ctx) is left out
FreeCtx_Skipped ==
    /\ pc = "free_ctx"
    /\ pc' = "init_ctx2"
    /\ UNCHANGED << params, n_past, last_n_tokens_data, ctx, tokens, n_prompt_tokens,
                    state_size, state_mem, fp_write, last_n_tokens_data_saved,
                    n_past_saved, i, logits, candidates, next_token, ctx2, fp_read,
                    ret, dump_state, out1, out2, err, ckpt_ctx, calls >>

FreeCtx ==
    /\ pc = "free_ctx"
    /\ ctx' = [ctx EXCEPT !.status = "freed"]
    /\ Log(Call("free", 112, 1, 0, 0, ctx.n_cells, 0))
    /\ pc' = "init_ctx2"
    /\ UNCHANGED << params, n_past, last_n_tokens_data, tokens, n_prompt_tokens,
                    state_size, state_mem, fp_write, last_n_tokens_data_saved,
                    n_past_saved, i, logits, candidates, next_token, ctx2, fp_read,
                    ret, dump_state, out1, out2, err, ckpt_ctx >>

(***************************************************************************)
(* Line 115: ctx2 = llama_init_from_file(...) with the same lparams; the   *)
(* result is not checked.  The model file is read again.                   *)
(***************************************************************************)
CreateCtx2 ==
    /\ pc = "init_ctx2"
    /\ \E ok \in BOOLEAN, extra \in {0, MaxExtra} :
          /\ ctx2' = IF ok THEN llama_init_from_file(params.n_ctx, params.seed, extra)
                           ELSE NullHandle
          /\ Log(Call("init", 115, 2, 0, 0, 0, IF ok THEN 0 ELSE 1))
    /\ pc' = "fopen_read"
    /\ UNCHANGED << params, n_past, last_n_tokens_data, ctx, tokens, n_prompt_tokens,
                    state_size, state_mem, fp_write, last_n_tokens_data_saved,
                    n_past_saved, i, logits, candidates, next_token, fp_read, ret,
                    dump_state, out1, out2, err, ckpt_ctx >>

(***************************************************************************)
(* Line 119: fopen("dump_state.bin", "rb"); the result is not checked.     *)
(***************************************************************************)
FopenRead ==
    /\ pc = "fopen_read"
    /\ \E ok \in BOOLEAN :
          /\ fp_read' = IF ok THEN "open" ELSE "null"
          /\ Log(Call("fopen_rb", 119, 0, 0, 0, 0, IF ok THEN 0 ELSE 1))
    /\ pc' = "check_size"
    /\ UNCHANGED << params, n_past, last_n_tokens_data, ctx, tokens, n_prompt_tokens,
                    state_size, state_mem, fp_write, last_n_tokens_data_saved,
                    n_past_saved, i, logits, candidates, next_token, ctx2, ret,
                    dump_state, out1, out2, err, ckpt_ctx >>

(***************************************************************************)
(* Lines 120-123: return 1 when state_size differs from                    *)
(* llama_get_state_size(ctx2).  llama_get_state_size dereferences ctx2.    *)
(***************************************************************************)
\* variant: only a buffer too large for ctx2 is rejected
SizeMismatch_OnlyLarger(a, b) == a > b

SizeMismatch(a, b) == a # b

CheckSize ==
    /\ pc = "check_size"
    /\ IF ctx2.status # "live"
       THEN /\ Log(Fault("get_state_size", 120, 2))
            /\ pc' = "crashed"
            /\ err' = err
       ELSE /\ Log(Call("get_state_size", 120, 2, 0, 0, ctx2.n_cells,
                        llama_get_state_size(ctx2)))
            /\ IF SizeMismatch(state_size, llama_get_state_size(ctx2))
               THEN pc' = "exit1" /\ err' = "size"
               ELSE pc' = "fread" /\ err' = err
    /\ UNCHANGED << params, n_past, last_n_tokens_data, ctx, tokens, n_prompt_tokens,
                    state_size, state_mem, fp_write, last_n_tokens_data_saved,
                    n_past_saved, i, logits, candidates, next_token, ctx2, fp_read,
                    ret, dump_state, out1, out2, ckpt_ctx >>

(***************************************************************************)
(* Lines 124-128: ret = fread(state_mem, 1, state_size, fp_read); return 1 *)
(* when ret differs from state_size.  fread on a null stream terminates    *)
(* the process.                                                            *)
(***************************************************************************)
\* variant: only an empty read is taken as a failure
ReadFailed_OnlyEmpty(n, size) == n = 0

ReadFailed(n, size) == n # size

Fread ==
    /\ pc = "fread"
    /\ IF fp_read = "null"
       THEN /\ Log(Fault("fread", 124, 0))
            /\ pc' = "crashed"
            /\ UNCHANGED << ret, state_mem, err >>
       ELSE \E k \in Transfers(Min(state_size, Len(dump_state))) :
               /\ ret' = k
               /\ state_mem' = SubSeq(dump_state, 1, k)
                                  \o SubSeq(state_mem, k + 1, state_size)
               /\ Log(Call("fread", 124, 0, 0, state_size, 0, k))
               /\ IF ReadFailed(k, state_size)
                  THEN pc' = "exit1" /\ err' = "read"
                  ELSE pc' = "set_state" /\ err' = err
    /\ UNCHANGED << params, n_past, last_n_tokens_data, ctx, tokens, n_prompt_tokens,
                    state_size, fp_write, last_n_tokens_data_saved, n_past_saved, i,
                    logits, candidates, next_token, ctx2, fp_read, dump_state, out1,
                    out2, ckpt_ctx >>

(***************************************************************************)
(* Lines 129-130: llama_set_state_data(ctx2, state_mem); fclose(fp_read).  *)
(***************************************************************************)
\* variant: the buffer is read but never handed to ctx2
SetStateData_NotApplied ==
    /\ pc = "set_state"
    /\ fp_read' = "closed"
    /\ pc' = "restore_tokens"
    /\ UNCHANGED << params, n_past, last_n_tokens_data, ctx, tokens, n_prompt_tokens,
                    state_size, state_mem, fp_write, last_n_tokens_data_saved,
                    n_past_saved, i, logits, candidates, next_token, ctx2, ret,
                    dump_state, out1, out2, err, ckpt_ctx, calls >>

SetStateData ==
    /\ pc = "set_state"
    /\ ctx2' = llama_set_state_data(ctx2, state_mem)
    /\ fp_read' = "closed"
    /\ Log(Call("set_state_data", 129, 2, 0, 0, ctx2.n_cells, state_size))
    /\ pc' = "restore_tokens"
    /\ UNCHANGED << params, n_past, last_n_tokens_data, ctx, tokens, n_prompt_tokens,
                    state_size, state_mem, fp_write, last_n_tokens_data_saved,
                    n_past_saved, i, logits, candidates, next_token, ret, dump_state,
                    out1, out2, err, ckpt_ctx >>

(***************************************************************************)
(* Lines 133-140: delete[] state_mem; last_n_tokens_data and n_past are    *)
(* assigned the saved copies; the second run starts with i = 0.            *)
(***************************************************************************)
\* variant: the second run continues from the values the first run left
RestoreTokens_KeepLive ==
    /\ pc = "restore_tokens"
    /\ state_mem' = << >>
    /\ i' = 0
    /\ pc' = AtLoop[2]
    /\ UNCHANGED << params, n_past, last_n_tokens_data, ctx, tokens, n_prompt_tokens,
                    state_size, fp_write, last_n_tokens_data_saved, n_past_saved,
                    logits, candidates, next_token, ctx2, fp_read, ret, dump_state,
                    out1, out2, err, ckpt_ctx, calls >>

RestoreTokens ==
    /\ pc = "restore_tokens"
    /\ state_mem' = << >>
    /\ last_n_tokens_data' = last_n_tokens_data_saved
    /\ n_past' = n_past_saved
    /\ i' = 0
    /\ pc' = AtLoop[2]
    /\ UNCHANGED << params, ctx, tokens, n_prompt_tokens, state_size, fp_write,
                    last_n_tokens_data_saved, n_past_saved, logits, candidates,
                    next_token, ctx2, fp_read, ret, dump_state, out1, out2, err,
                    ckpt_ctx, calls >>

Run1 ==
    \/ LoopCond(1) \/ GetLogits(1) \/ BuildCandidates(1)
    \/ SampleToken(1) \/ PushBack(1) \/ EvalToken(1)

Run2 ==
    \/ LoopCond(2) \/ GetLogits(2) \/ BuildCandidates(2)
    \/ SampleToken(2) \/ PushBack(2) \/ EvalToken(2)

Next ==
    \/ Setup \/ CreateCtx \/ Tokenize \/ EvalPrompt \/ GetStateSize
    \/ FopenWrite \/ CopyStateData \/ Fwrite \/ SaveTokens
    \/ Run1
    \/ FreeCtx \/ CreateCtx2 \/ FopenRead \/ CheckSize \/ Fread
    \/ SetStateData \/ RestoreTokens
    \/ Run2

Spec == Init /\ [][Next]_vars

TypeOK ==
    /\ n_past \in Nat
    /\ i \in Nat
    /\ err \in {"none", "tokenize", "evaluate", "size", "read"}


(***************************************************************************)
(* Properties.                                                             *)
(***************************************************************************)
IsPrefix(a, b) == Len(a) <= Len(b) /\ SubSeq(b, 1, Len(a)) = a

\* the mutable working state of a handle
EngineState(h) ==
    [rng |-> h.rng, n_cells |-> h.n_cells, cache |-> h.cache, logits |-> h.logits]

\* a handle as llama_init_from_file left it
Fresh(h) == h = llama_init_from_file(params.n_ctx, params.seed, h.extra)

\* the call at index k is the last call issued
LastCall(k) == k = Len(calls)

\* the checkpoint's history and position: the zero window and the prompt
CheckpointHistory ==
    Zeros(params.repeat_last_n) \o SubSeq(tokens, 1, n_prompt_tokens)

PromptEvalOk ==
    \E k \in DOMAIN calls : calls[k].line = 58 /\ calls[k].ret = 0

\* C1: the tokens printed by the second run (on ctx2, after the restore)
\* repeat the tokens printed by the first run (on ctx, after the capture):
\* at every moment the second sequence is a prefix of the first, and when
\* main returns 0 the two sequences are equal, for every n_predict.
C1_SecondRunRepeatsFirst ==
    /\ IsPrefix(out2, out1)
    /\ pc = "exit0" => out2 = out1

\* both runs completed two steps after a successful prompt evaluation, and the
\* first token of the second run is not what a fresh handle would give
C1_Witness ==
    /\ pc = "exit0"
    /\ PromptEvalOk
    /\ Len(out2) = 2
    /\ out2[1] # llama_sample_token(
                    llama_init_from_file(params.n_ctx, params.seed, 0),
                    Candidates(Zeros(NVocab), NVocab))

\* C2: when llama_get_state_size(ctx2) returns a size other than state_size,
\* main prints the size diagnostic and returns 1: that call is the last one
\* (no fread, no llama_set_state_data, no step of the second run), the buffer
\* still holds the captured bytes and ctx2 is as created.
C2_SizeMismatchHalts ==
    \A k \in DOMAIN calls :
        (calls[k].line = 120 /\ ~calls[k].fault /\ calls[k].ret # state_size)
        => /\ pc = "exit1"
           /\ err = "size"
           /\ LastCall(k)
           /\ state_mem = llama_copy_state_data(ckpt_ctx)
           /\ Fresh(ctx2)
           /\ out2 = << >>

C2_Witness ==
    /\ err = "size"
    /\ llama_get_state_size(ctx2) # state_size
    /\ Len(out1) >= 1

\* C3: when fread returns fewer bytes than state_size, main prints the read
\* diagnostic and returns 1: fread is the last call (llama_set_state_data is
\* not called, no step of the second run) and ctx2 is as created.
C3_ShortReadHalts ==
    \A k \in DOMAIN calls :
        (calls[k].line = 124 /\ ~calls[k].fault /\ calls[k].ret < state_size)
        => /\ pc = "exit1"
           /\ err = "read"
           /\ LastCall(k)
           /\ Fresh(ctx2)
           /\ out2 = << >>

\* a read that filled part of the buffer
C3_Witness ==
    /\ err = "read"
    /\ ret >= 1
    /\ ret < state_size

\* C4: when llama_eval of a sampled token (line 102 or 155) returns non-zero,
\* main prints the evaluate diagnostic and returns 1: that call is the last
\* one, n_past is still the position passed to it, and a failure in the
\* first run leaves ctx unfreed, ctx2 uncreated and the second run unstarted.
C4_LoopEvalFailureHalts ==
    \A k \in DOMAIN calls :
        (calls[k].op = "eval" /\ calls[k].line \in {102, 155} /\ calls[k].ret # 0)
        => /\ pc = "exit1"
           /\ err = "evaluate"
           /\ LastCall(k)
           /\ n_past = calls[k].pos
           /\ calls[k].line = 102
                => ctx.status = "live" /\ ctx2 = NullHandle /\ out2 = << >>

\* the second step of the second run failed
C4_Witness ==
    /\ err = "evaluate"
    /\ calls[Len(calls)].line = 155
    /\ Len(out2) = 2

\* C5: when llama_eval of the prompt (line 58) returns non-zero, main halts:
\* that call is the last one, n_past stays 0, the history stays the zero
\* window, and no state is captured or written.
C5_PromptEvalFailureHalts ==
    \A k \in DOMAIN calls :
        (calls[k].line = 58 /\ calls[k].ret # 0)
        => /\ pc = "exit1"
           /\ LastCall(k)
           /\ n_past = 0
           /\ last_n_tokens_data = Zeros(params.repeat_last_n)
           /\ state_mem = << >>
           /\ fp_write = "none"
           /\ out1 = << >>

\* C6: when dump_state.bin cannot be opened for writing, or fwrite writes
\* fewer than state_size bytes, main halts at that step: the failing call is
\* the last one and the first run does not start.
C6_WriteFailureHalts ==
    \A k \in DOMAIN calls :
        (\/ calls[k].line = 70 /\ calls[k].ret # 0
         \/ calls[k].line = 72 /\ ~calls[k].fault /\ calls[k].ret < state_size)
        => /\ Halted
           /\ LastCall(k)

\* C7: n_past starts at 0 and every llama_eval call is passed, as position,
\* the number of cache cells its handle has filled; after a successful call
\* the handle has filled position + count cells.
C7_NPastIsCellsFilled ==
    /\ pc = "start" => n_past = 0
    /\ \A k \in DOMAIN calls :
          calls[k].op = "eval" => calls[k].pos = calls[k].cells

\* C8: llama_set_state_data is handed the bytes captured from ctx at line 71,
\* which are also the bytes of dump_state.bin; and when the second run
\* starts, the working state of ctx2 is the state ctx had at line 71, and
\* last_n_tokens_data and n_past are the saved copies (the zero window
\* followed by the prompt, and the prompt length).
C8_RestoredCheckpoint ==
    /\ pc = "set_state"
          => /\ state_mem = llama_copy_state_data(ckpt_ctx)
             /\ dump_state = llama_copy_state_data(ckpt_ctx)
    /\ (pc = AtLoop[2] /\ i = 0)
          => /\ EngineState(ctx2) = EngineState(ckpt_ctx)
             /\ last_n_tokens_data = last_n_tokens_data_saved
             /\ last_n_tokens_data = CheckpointHistory
             /\ n_past = n_past_saved
             /\ n_past = n_prompt_tokens

\* the second run is about to start after a first run that advanced ctx
C8_Witness ==
    /\ pc = AtLoop[2]
    /\ i = 0
    /\ Len(out1) = 2
    /\ EngineState(ctx) # EngineState(ckpt_ctx)

\* C9: once taken (line 77), the saved copies never change: no step other
\* than the one at line 77 changes last_n_tokens_data_saved or n_past_saved,
\* whatever is appended to last_n_tokens_data.
C9_SavedCopyUnchanged ==
    [][pc # "save_tokens"
         => /\ last_n_tokens_data_saved' = last_n_tokens_data_saved
            /\ n_past_saved' = n_past_saved]_vars

\* the live history grew in both runs and the saved copy is the checkpoint's
C9_Witness ==
    /\ pc = "exit0"
    /\ Len(out1) = 2
    /\ Len(out2) = 2
    /\ Len(last_n_tokens_data) = Len(last_n_tokens_data_saved) + 2
    /\ last_n_tokens_data_saved = CheckpointHistory

\* C10: when llama_tokenize returns less than 1, main prints the tokenize
\* diagnostic and returns 1: llama_tokenize is the last call (no llama_eval),
\* n_past is 0, the history is the zero window, no buffer is allocated and
\* dump_state.bin is not opened.
C10_TokenizeFailureHalts ==
    \A k \in DOMAIN calls :
        (calls[k].line = 49 /\ ~calls[k].fault /\ calls[k].ret < 1)
        => /\ pc = "exit1"
           /\ err = "tokenize"
           /\ LastCall(k)
           /\ n_past = 0
           /\ last_n_tokens_data = Zeros(params.repeat_last_n)
           /\ state_size = 0
           /\ state_mem = << >>
           /\ fp_write = "none"
           /\ dump_state = << >>

\* a prompt that does not fit the n_ctx buffer
C10_Witness ==
    /\ err = "tokenize"
    /\ n_prompt_tokens < 0


\* the saved copies have been taken (lines 77-78 have run)
CheckpointTaken == fp_write = "closed" /\ pc # "save_tokens"

\* indices of the calls with the given operation on the given handle
CallsOf(op_, h_) ==
    {k \in DOMAIN calls : calls[k].op = op_ /\ calls[k].h = h_ /\ ~calls[k].fault}

\* C11: between the capture of ctx (line 71) and the saved copies (lines
\* 77-78) ctx is not evaluated and n_past and last_n_tokens_data do not
\* change (only fwrite is called); so the saved n_past is the number of cells
\* filled in the captured state and the saved history ends with exactly the
\* tokens held by those cells.
C11_CheckpointAtOneInstant ==
    /\ pc \in {"fwrite", "save_tokens"}
          => /\ EngineState(ctx) = EngineState(ckpt_ctx)
             /\ calls[Len(calls)].op \in {"copy_state_data", "fwrite"}
             /\ n_past = n_prompt_tokens
             /\ last_n_tokens_data = CheckpointHistory
    /\ CheckpointTaken
          => /\ n_past_saved = ckpt_ctx.n_cells
             /\ SubSeq(last_n_tokens_data_saved,
                       Len(last_n_tokens_data_saved) - n_past_saved + 1,
                       Len(last_n_tokens_data_saved))
                  = SubSeq(ckpt_ctx.cache, 1, ckpt_ctx.n_cells)

\* C12: whenever llama_free(ctx) has been called, llama_copy_state_data(ctx)
\* and the fwrite of the buffer were called before it, and no call after it
\* names ctx.
C12_FreeAfterCapture ==
    \A k \in CallsOf("free", 1) :
        /\ \E j \in CallsOf("copy_state_data", 1) : j < k
        /\ \E j \in CallsOf("fwrite", 0) : j < k
        /\ \A j \in DOMAIN calls : j > k => calls[j].h # 1

\* ctx was freed after a first run that used it, and the second run completed
C12_Witness ==
    /\ pc = "exit0"
    /\ CallsOf("free", 1) # {}
    /\ Len(out1) = 2
    /\ Len(out2) = 2

\* C13: each step of either run goes through get-logits, build-candidates,
\* sample, push_back, eval in this order; the sampled token is the last
\* entry of last_n_tokens_data when llama_eval is called; the next step
\* starts only when llama_eval has returned zero; and the loop is left
\* exactly when i reaches n_predict or llama_eval fails.
C13_StepOrder ==
    [][\A r \in {1, 2} :
          /\ pc = AtLoop[r]
                => \/ pc' = AtLogits[r] /\ i < params.n_predict
                   \/ pc' = AfterRun[r] /\ i = params.n_predict
          /\ pc = AtLogits[r] => pc' = AtCands[r]
          /\ pc = AtCands[r] => pc' = AtSample[r]
          /\ pc = AtSample[r] => pc' = AtPush[r]
          /\ pc = AtPush[r]
                => /\ pc' = AtEval[r]
                   /\ last_n_tokens_data' = Append(last_n_tokens_data, next_token)
                   /\ calls' = calls
          /\ pc = AtEval[r]
                => \/ /\ pc' = AtLoop[r]
                      /\ calls'[Len(calls')].ret = 0
                      /\ i' = i + 1
                   \/ /\ pc' = "exit1"
                      /\ calls'[Len(calls')].ret # 0
          /\ pc' = AtLogits[r] => pc = AtLoop[r]
          /\ pc' = AfterRun[r] => pc = AtLoop[r]]_vars

\* the second run has completed two steps
C13_Witness ==
    /\ pc = AtLoop[2]
    /\ i = 2
    /\ params.n_predict > 2

\* the tokens given to llama_eval in the current run, after the prompt
RunOutput == IF fp_read = "closed" /\ pc # "restore_tokens" THEN out2 ELSE out1

AtStepBoundary == pc \in {AtLoop[1], AtLoop[2]} \/ Halted

\* C14 (as stated): at every step boundary of either run and at termination,
\* last_n_tokens_data is the zero window followed by the prompt and the
\* tokens of the current run, and its length is repeat_last_n + n_past.
C14_HistoryIsWindowPlusNPast ==
    AtStepBoundary
       => /\ last_n_tokens_data = CheckpointHistory \o RunOutput
          /\ Len(last_n_tokens_data) = params.repeat_last_n + n_past

\* C14 (amended): at every step boundary of either run and at termination,
\* last_n_tokens_data is the zero window followed by the tokens given to
\* llama_eval so far (the prompt, then the tokens of the current run); its
\* length is repeat_last_n + n_past, except after a failed llama_eval of a
\* sampled token, where the token was appended and n_past was not advanced:
\* the length is then repeat_last_n + n_past + 1.
C14_HistoryIsWindowPlusEvalTokens ==
    AtStepBoundary
       => /\ last_n_tokens_data = CheckpointHistory \o RunOutput
          /\ Len(last_n_tokens_data) =
                params.repeat_last_n + n_past + (IF err = "evaluate" THEN 1 ELSE 0)

\* the second step of the first run failed, with a non-empty zero window
C14_Witness ==
    /\ err = "evaluate"
    /\ params.repeat_last_n >= 1
    /\ Len(out1) = 2
    /\ out2 = << >>


\* the call succeeded: no fault, no error result, no short transfer, a
\* prompt of at least one token, a matching state size
CallOk(c) ==
    /\ ~c.fault
    /\ c.op \in {"init", "eval", "fopen_wb", "fopen_rb"} => c.ret = 0
    /\ c.op = "tokenize" => c.ret >= 1
    /\ c.op \in {"fwrite", "fread"} => c.ret = state_size
    /\ c.line = 120 => c.ret = state_size

NoFailure == \A k \in DOMAIN calls : CallOk(calls[k])

\* the operations called so far
OpsCalled == {calls[k].op : k \in DOMAIN calls}

C15_Counts ==
    /\ (Halted /\ NoFailure) => pc = "exit0"
    /\ pc = AfterRun[1]
          => /\ Len(out1) = params.n_predict
             /\ n_past = n_prompt_tokens + params.n_predict
    /\ pc = AfterRun[2]
          => /\ Len(out1) = params.n_predict
             /\ Len(out2) = params.n_predict
             /\ n_past = n_prompt_tokens + params.n_predict
             /\ {"copy_state_data", "fwrite", "free", "get_state_size",
                 "fread", "set_state_data"} \subseteq OpsCalled
             /\ Cardinality(CallsOf("init", 2)) = 1

\* the number of steps a run still has to make at most: six per remaining
\* iteration, less those of the current iteration already made, and the
\* last evaluation of the loop condition
StepsOfRun(n, done, made) == 6 * (n - done) - made + 1

\* the steps made in the current iteration at each position of run r
MadeAt(r) ==
    CASE pc = AtLoop[r]   -> 0
      [] pc = AtLogits[r] -> 1
      [] pc = AtCands[r]  -> 2
      [] pc = AtSample[r] -> 3
      [] pc = AtPush[r]   -> 4
      [] pc = AtEval[r]   -> 5

\* the positions before the first run and between the runs, in order
Before1 == << "start", "init_ctx", "tokenize", "eval_prompt", "state_size",
              "fopen_write", "copy_state", "fwrite", "save_tokens" >>
Before2 == << "free_ctx", "init_ctx2", "fopen_read", "check_size", "fread",
              "set_state", "restore_tokens" >>

IndexIn(seq, x) == CHOOSE k \in DOMAIN seq : seq[k] = x

InSeq(seq, x) == \E k \in DOMAIN seq : seq[k] = x

InRun(r) == pc \in {AtLoop[r], AtLogits[r], AtCands[r], AtSample[r],
                    AtPush[r], AtEval[r]}

\* an upper bound of the steps main() still makes
StepsLeft ==
    LET n  == IF params.n_predict < 0 THEN DefaultNPredict ELSE params.n_predict
        r2 == StepsOfRun(n, 0, 0)
        b2 == Len(Before2) + r2
        r1 == StepsOfRun(n, 0, 0) + b2
    IN  CASE Halted               -> 0
          [] InRun(2)             -> StepsOfRun(n, i, MadeAt(2))
          [] InSeq(Before2, pc)   -> b2 - IndexIn(Before2, pc) + 1
          [] InRun(1)             -> StepsOfRun(n, i, MadeAt(1)) + b2
          [] InSeq(Before1, pc)   -> Len(Before1) - IndexIn(Before1, pc) + 1 + r1

\* C15: main always terminates (a step can be taken until main has returned
\* or faulted, and every step lowers the bound StepsLeft on the steps still
\* to come), and it returns 0 when no call failed; the n_predict used is the
\* one given, or 16 when the given one is negative; each run that completes
\* has made exactly n_predict steps and leaves n_past = prompt length +
\* n_predict; a completed execution (n_predict = 0 included) has captured,
\* written, freed, recreated, size-checked, read and restored.
C15_TerminatesWithNPredictSteps ==
    /\ [](Halted \/ ENABLED Next)
    /\ [](StepsLeft \in Nat)
    /\ [][StepsLeft' < StepsLeft]_vars
    /\ []C15_Counts
    /\ [][pc = "start"
            => params'.n_predict = IF params.n_predict < 0
                                   THEN DefaultNPredict
                                   ELSE params.n_predict]_vars

\* the default of 16 steps was used and both runs completed
C15_Witness ==
    /\ pc = "exit0"
    /\ NoFailure
    /\ params.n_predict = DefaultNPredict
    /\ Len(out2) = DefaultNPredict

\* C16: in every step of either run the candidates are one entry per
\* vocabulary entry, entry k holding id k, the handle's current logit of k and
\* probability 0 (ids 0 .. n_vocab-1 in order); the sampled token is a
\* vocabulary id, and it is the token appended to last_n_tokens_data, printed
\* and written into the cache by llama_eval in that step.
C16_CandidatesAndToken ==
    \A r \in {1, 2} :
        /\ pc \in {AtSample[r], AtPush[r], AtEval[r]}
              => /\ Len(candidates) = NVocab
                 /\ \A k \in 1..NVocab :
                       candidates[k] =
                          [id |-> k - 1, logit |-> Handle(r).logits[k], p |-> 0]
        /\ pc \in {AtPush[r], AtEval[r]} => next_token \in 0 .. (NVocab - 1)
        /\ pc = AtEval[r]
              => last_n_tokens_data[Len(last_n_tokens_data)] = next_token
        /\ (pc = AtLoop[r] /\ i > 0)
              => /\ Len(RunOutput) = i
                 /\ RunOutput[i] = next_token
                 /\ last_n_tokens_data[Len(last_n_tokens_data)] = next_token
                 /\ Handle(r).cache[n_past] = next_token

\* a step of the second run chose the second vocabulary entry from unequal scores
C16_Witness ==
    /\ pc = AtLoop[2]
    /\ i = 2
    /\ next_token = 1
    /\ candidates[1].logit # candidates[2].logit

\* C17: ctx and ctx2 are never live together: ctx2 is created only after
\* llama_free(ctx); ctx2 is as created until llama_set_state_data, and
\* afterwards it is what the bytes captured from ctx make of a fresh handle.
C17_OneLiveHandle ==
    /\ ~(ctx.status = "live" /\ ctx2.status = "live")
    /\ \A k \in CallsOf("init", 2) : \E j \in CallsOf("free", 1) : j < k
    /\ (pc \in {"fopen_read", "check_size", "fread", "set_state"}
          /\ ctx2.status = "live") => Fresh(ctx2)
    /\ pc = "restore_tokens"
          => ctx2 = llama_set_state_data(
                       llama_init_from_file(params.n_ctx, params.seed, ctx2.extra),
                       llama_copy_state_data(ckpt_ctx))

\* ctx2 is live and restored, ctx is freed after a first run of two steps
C17_Witness ==
    /\ pc = "restore_tokens"
    /\ ctx.status = "freed"
    /\ ctx2.status = "live"
    /\ Len(out1) = 2

\* C18: no library call is given a null handle (none faults on its handle),
\* and no call names ctx after llama_free(ctx).
C18_CallsOnLiveHandles ==
    /\ \A k \in DOMAIN calls : calls[k].h # 0 => ~calls[k].fault
    /\ \A k \in CallsOf("free", 1) :
          \A j \in DOMAIN calls : j > k => calls[j].h # 1

\* C19: every llama_eval call is given a position and a token count that
\* fit the context: pos + n <= n_ctx.
C19_EvalWithinContext ==
    \A k \in DOMAIN calls :
        calls[k].op = "eval" => calls[k].pos + calls[k].n <= params.n_ctx

=============================================================================
